---- MODULE Spec2Model ----
(***************************************************************************)
(* A model of eltorito.py: the sector reader _get_sector, the descriptor   *)
(* walk of extract (boot record, validation entry, initial entry, media    *)
(* classification, hard-disk partition read, final read), the DetailHandler*)
(* that extract reports to and reads its fields back from, and the         *)
(* command-line entry point main.                                          *)
(*                                                                         *)
(* An image is a byte-addressable source: ByteAt gives the byte at every   *)
(* offset below its length.  A buffer returned by a read is the region of  *)
(* the source it was read from; its bytes are the source's bytes there.    *)
(* 32-bit fields and everything computed from them are kept as exact       *)
(* naturals in two limbs (Python integers do not wrap).                    *)
(***************************************************************************)
EXTENDS Integers, Sequences, FiniteSets, TLC

VARIABLES
    image,      \* the bytes behind the input stream
    stream,     \* input_stream: TRUE when a stream is passed, FALSE when None
    mode,       \* "cli": extract is called by main; "api": called directly
    handler,    \* the DetailHandler passed to extract (or None)
    ex,         \* extract's activation: position and local variables
    res,        \* how extract ended: returned buffer or exception
    cli         \* main's state: console, output file, exit code

vars == <<image, stream, mode, handler, ex, res, cli>>

----------------------------------------------------------------------------
(* Constants of the program *)

V_SECTOR_SIZE == 512
SECTOR_SIZE == 2048
BootRecordSector == 17

(* Layout of the modelled images: where the boot catalog and the boot      *)
(* image are laid down.                                                    *)
CatalogAt == 19
ImageAt == 25

----------------------------------------------------------------------------
(* Exact naturals in two limbs: value = hi * 2^16 + lo *)

Limb == 256 * 256

Big(h, l) == [hi |-> h, lo |-> l]

BigOf(n) == Big(n \div Limb, n % Limb)

BigAdd(a, b) ==
    LET l == a.lo + b.lo
    IN  Big(a.hi + b.hi + (l \div Limb), l % Limb)

BigMul(a, k) ==
    LET l == a.lo * k
    IN  Big(a.hi * k + (l \div Limb), l % Limb)

BigLeq(a, b) == a.hi < b.hi \/ (a.hi = b.hi /\ a.lo <= b.lo)

BigIsZero(a) == a.hi = 0 /\ a.lo = 0

\* only used on values known to be below the length of the source
BigToInt(a) == a.hi * Limb + a.lo

----------------------------------------------------------------------------
(* Byte strings *)

Pad(s, n, b) == s \o [i \in 1..(n - Len(s)) |-> b]

\* "CD001"
CD001 == <<67, 68, 48, 48, 49>>

\* "EL TORITO SPECIFICATION"
EL_TORITO_SPECIFICATION ==
    <<69, 76, 32, 84, 79, 82, 73, 84, 79, 32,
      83, 80, 69, 67, 73, 70, 73, 67, 65, 84, 73, 79, 78>>

\* bytes.decode("ascii") raises UnicodeDecodeError on any byte >= 0x80
IsAscii(s) == \A i \in 1..Len(s) : s[i] < 128

\* str.isspace() on the ASCII range
IsSpace(c) == c \in {9, 10, 11, 12, 13, 28, 29, 30, 31, 32}

\* str.strip()
Strip(s) ==
    LET keep == {i \in 1..Len(s) : ~IsSpace(s[i])}
    IN  IF keep = {} THEN <<>>
        ELSE SubSeq(s, CHOOSE i \in keep : \A j \in keep : i <= j,
                       CHOOSE i \in keep : \A j \in keep : j <= i)

IsUpperOrSpace(c) == (c >= 65 /\ c <= 90) \/ c = 32

\* "".join([x for x in spec if (x >= 'A' and x <= 'Z') or x == ' '])
FilterSpec(s) == SelectSeq(s, IsUpperOrSpace)

LE2(n) == <<n % 256, n \div 256>>

LE4(b) == LE2(b.lo) \o LE2(b.hi)

----------------------------------------------------------------------------
(* The source.  An image is described by its length and by the fields laid *)
(* down in it; ByteAt is the byte the stream holds at an offset.           *)

BootRecordBytes(img) ==
    <<0>> \o img.iso \o <<img.vers>> \o img.spec \o Pad(<<>>, 32, 0)
          \o LE4(img.partition)

CatalogBytes(img) ==
    <<img.header, img.platform, 0, 0>> \o img.manufacturer \o <<0, 0>>
        \o <<img.key1, img.key2>>
        \o <<img.boot, img.media, 0, 0, 0, 0>> \o LE2(img.cnt)
        \o LE4(img.start) \o <<0>>

PartitionBytes(img) == Pad(<<>>, 8, 0) \o LE4(img.first) \o LE4(img.size)

ByteAt(img, o) ==
    LET sec == o \div SECTOR_SIZE
        i   == o % SECTOR_SIZE
    IN  IF sec = ImageAt /\ i >= 446 /\ i < 462
          THEN PartitionBytes(img)[i - 445]
        ELSE IF sec = CatalogAt /\ i < 45
          THEN CatalogBytes(img)[i + 1]
        ELSE IF sec = BootRecordSector /\ i < 75
          THEN BootRecordBytes(img)[i + 1]
        ELSE 0

----------------------------------------------------------------------------
(* DetailHandler *)

\* DetailHandler(stdout): stdout is sys.stdout by default, or None
DetailHandler(out) ==
    [present |-> TRUE, stdout |-> out, attrs |-> <<>>, written |-> <<>>]

\* the handler argument None
NoHandler ==
    [present |-> FALSE, stdout |-> FALSE, attrs |-> <<>>, written |-> <<>>]

\* a set that stores the attribute only when it also writes it
SetOnlyWhenPrinting(h, key, value) ==
    IF h.stdout
      THEN [h EXCEPT !.written = Append(@, [key |-> key, value |-> value]),
                     !.attrs = Append(@, [key |-> key, value |-> value])]
      ELSE h

\* DetailHandler.set: write "- key -> value" when there is a stdout, then
\* setattr(self, key, value)
Set(h, key, value) ==
    [h EXCEPT !.written = IF h.stdout
                            THEN Append(@, [key |-> key, value |-> value])
                            ELSE @,
              !.attrs = Append(@, [key |-> key, value |-> value])]

HasAttr(h, key) == \E i \in 1..Len(h.attrs) : h.attrs[i].key = key

\* DetailHandler.get: getattr(self, key), the value last set
Get(h, key) ==
    LET at == {i \in 1..Len(h.attrs) : h.attrs[i].key = key}
    IN  h.attrs[CHOOSE i \in at : \A j \in at : j <= i].value

----------------------------------------------------------------------------
(* _get_sector *)

EmptyBuf == [off |-> 0, len |-> 0]

\* handle.seek(number * SECTOR_SIZE, 0); handle.read(V_SECTOR_SIZE * count):
\* the number of bytes the stream yields (a seek past the end is allowed and
\* the read then yields nothing)
ReadLen(img, number, count) ==
    LET off   == BigMul(number, SECTOR_SIZE)
        want  == BigMul(count, V_SECTOR_SIZE)
        avail == IF BigLeq(BigOf(img.len), off) THEN 0
                 ELSE img.len - BigToInt(off)
    IN  IF BigLeq(want, BigOf(avail)) THEN BigToInt(want) ELSE avail

\* a sector reader that hands back whatever the stream yielded
ShortReadAccepted(got, count) == FALSE

\* if len(sector) != V_SECTOR_SIZE * count: raise
ShortRead(got, count) == BigOf(got) # BigMul(count, V_SECTOR_SIZE)

\* _get_sector(number, count, handle): raised, or the sector read
GetSector(img, number, count) ==
    LET got == ReadLen(img, number, count)
    IN  [raised |-> ShortRead(got, count),
         sector |-> IF got = 0 THEN EmptyBuf
                    ELSE [off |-> BigToInt(BigMul(number, SECTOR_SIZE)),
                          len |-> got]]

(* struct.unpack on a buffer: fixed offsets, little-endian *)
U8(img, buf, i) == ByteAt(img, buf.off + i)

U16(img, buf, i) == U8(img, buf, i) + 256 * U8(img, buf, i + 1)

U32(img, buf, i) == Big(U16(img, buf, i + 2), U16(img, buf, i))

Bytes(img, buf, i, n) == [k \in 1..n |-> U8(img, buf, i + k - 1)]

----------------------------------------------------------------------------
(* extract, step by step.  A machine m is the handler, extract's activation *)
(* and its outcome; each step maps a machine to the next one.               *)

NoResult == [kind |-> "running", msg |-> "", buf |-> EmptyBuf]

NewActivation ==
    [pc |-> "enter", sector |-> EmptyBuf, cnt |-> 0, start |-> BigOf(0),
     count |-> BigOf(0), media_type |-> "", mbr |-> EmptyBuf,
     reads |-> <<>>]

Machine(h) == [h |-> h, ex |-> NewActivation, res |-> NoResult]

Raise(m, h, kind, msg) ==
    [m EXCEPT !.h = h, !.ex.pc = "raised",
              !.res = [kind |-> kind, msg |-> msg, buf |-> EmptyBuf]]

Return(m, buf) ==
    [m EXCEPT !.ex.pc = "returned",
              !.res = [kind |-> "returned", msg |-> "", buf |-> buf]]

\* a call of _get_sector from extract: the read is logged, the sector kept
CallGetSector(img, m, number, count, next) ==
    LET r   == GetSector(img, number, count)
        log == Append(m.ex.reads, [number |-> number, count |-> count])
    IN  IF r.raised
          THEN Raise([m EXCEPT !.ex.reads = log], m.h,
                     "ElToritoError", "invalid sector read")
          ELSE [m EXCEPT !.ex.reads = log, !.ex.sector = r.sector,
                         !.ex.pc = next]

\* lines 52-54
StepEnter(present, m) ==
    IF ~present \/ ~m.h.present
      THEN Raise(m, m.h, "ElToritoError",
                 "invalid arguments for extraction, all inputs must be set")
      ELSE [m EXCEPT !.ex.pc = "read_boot_record"]

\* line 55
StepReadBootRecord(img, m) ==
    CallGetSector(img, m, BigOf(BootRecordSector), BigOf(1),
                  "decode_boot_record")

\* lines 66-67: the test on the reported iso and spec
IsBootable(iso, spec) ==
    iso = CD001 /\ Strip(spec) = EL_TORITO_SPECIFICATION

\* lines 57-68: struct "<B5sB32s32sL" on sector[0:75]
StepDecodeBootRecord(img, m) ==
    LET s    == m.ex.sector
        iso  == Bytes(img, s, 1, 5)
        vers == U8(img, s, 6)
        raw  == Bytes(img, s, 7, 32)
        part == U32(img, s, 71)
        h1   == Set(m.h, "iso", iso)
        h2   == Set(h1, "vers", vers)
        h3   == Set(h2, "spec", FilterSpec(Strip(raw)))
        h4   == Set(h3, "partition", part)
    IN  IF ~IsAscii(iso)
          THEN Raise(m, m.h, "UnicodeDecodeError", "ascii")
        ELSE IF ~IsAscii(raw)
          THEN Raise(m, h2, "UnicodeDecodeError", "ascii")
        ELSE IF ~HasAttr(h4, "iso") \/ ~HasAttr(h4, "spec")
          THEN Raise(m, h4, "AttributeError", "iso")
        ELSE IF ~IsBootable(Get(h4, "iso"), Get(h4, "spec"))
          THEN Raise(m, h4, "ElToritoError",
                     "this is not a bootable cd-image")
        ELSE [m EXCEPT !.h = h4, !.ex.pc = "read_catalog"]

\* line 69
StepReadCatalog(img, m) ==
    IF ~HasAttr(m.h, "partition")
      THEN Raise(m, m.h, "AttributeError", "partition")
      ELSE CallGetSector(img, m, Get(m.h, "partition"), BigOf(1),
                         "decode_validation")

\* line 78
ValidationFails(header, five, aa) == header # 1 \/ five # 85 \/ aa # 170

\* lines 70-79: struct "<BBH24sHBB" on sector[0:32]
StepDecodeValidation(img, m) ==
    LET s      == m.ex.sector
        header == U8(img, s, 0)
        manuf  == Bytes(img, s, 4, 24)
        five   == U8(img, s, 30)
        aa     == U8(img, s, 31)
        h1     == Set(m.h, "platform", U8(img, s, 1))
        h2     == Set(h1, "manufacturer", manuf)
    IN  IF ~IsAscii(manuf)
          THEN Raise(m, h1, "UnicodeDecodeError", "ascii")
        ELSE IF ValidationFails(header, five, aa)
          THEN Raise(m, h2, "ElToritoError", "invalid validation entry")
        ELSE [m EXCEPT !.h = h2, !.ex.pc = "decode_initial"]

\* lines 80-87
PlatformString(platform) ==
    IF platform = 0 THEN "x86"
    ELSE IF platform = 1 THEN "PowerPC"
    ELSE IF platform = 2 THEN "Mac"
    ELSE "unknown"

\* lines 80-99: struct "<BBHBBHLB" on sector[32:45]
StepDecodeInitial(img, m) ==
    LET s     == m.ex.sector
        boot  == U8(img, s, 32)
        cnt   == U16(img, s, 38)
        start == U32(img, s, 40)
        h1    == IF HasAttr(m.h, "platform")
                   THEN Set(m.h, "platform_string",
                            PlatformString(Get(m.h, "platform")))
                   ELSE m.h
        h2    == Set(h1, "media", U8(img, s, 33))
    IN  IF ~HasAttr(m.h, "platform")
          THEN Raise(m, m.h, "AttributeError", "platform")
        ELSE IF boot # 136
          THEN Raise(m, h2, "ElToritoError",
                     "boot indicator is not 0x88, not bootable")
        ELSE [m EXCEPT !.h = h2, !.ex.cnt = cnt, !.ex.start = start,
                       !.ex.pc = "classify"]

\* lines 100-116: the label of a media value
MediaType(media) ==
    IF media = 0 THEN "no emulation"
    ELSE IF media = 1 THEN "1.2meg floppy"
    ELSE IF media = 2 THEN "1.44meg floppy"
    ELSE IF media = 3 THEN "2.88meg floppy"
    ELSE IF media = 4 THEN "harddisk"
    ELSE "unknown"

\* floppy capacities taken as multiples of 1000 bytes
MediaCountDecimal(media) ==
    IF media = 1 THEN (1200 * 1000) \div V_SECTOR_SIZE
    ELSE IF media = 2 THEN (1440 * 1000) \div V_SECTOR_SIZE
    ELSE IF media = 3 THEN (2880 * 1000) \div V_SECTOR_SIZE
    ELSE 0

\* lines 101-114: the count of a media value that needs no side read
\* (int(1200 * 1024 / V_SECTOR_SIZE) and so on; 0 when left at its default)
MediaCount(media) ==
    IF media = 1 THEN (1200 * 1024) \div V_SECTOR_SIZE
    ELSE IF media = 2 THEN (1440 * 1024) \div V_SECTOR_SIZE
    ELSE IF media = 3 THEN (2880 * 1024) \div V_SECTOR_SIZE
    ELSE 0

\* a sum kept in 32 bits
HardDiskCountWrapped(first, size) ==
    LET s == BigAdd(first, size) IN Big(s.hi % Limb, s.lo)

\* line 123: count = first + size
HardDiskCount(first, size) == BigAdd(first, size)

\* lines 124-125: if count == 0: count = cnt
ResolveCount(count, cnt) == IF BigIsZero(count) THEN BigOf(cnt) ELSE count

\* lines 100-125
StepClassify(img, m) ==
    LET media == Get(m.h, "media")
        r     == GetSector(img, m.ex.start, BigOf(1))
        log   == Append(m.ex.reads,
                        [number |-> m.ex.start, count |-> BigOf(1)])
        first == U32(img, r.sector, 454)
        size  == U32(img, r.sector, 458)
    IN  IF ~HasAttr(m.h, "media")
          THEN Raise(m, m.h, "AttributeError", "media")
        ELSE IF media = 4
          THEN IF r.raised
                 THEN Raise([m EXCEPT !.ex.reads = log], m.h,
                            "ElToritoError", "invalid sector read")
                 ELSE [m EXCEPT !.ex.reads = log, !.ex.mbr = r.sector,
                         !.ex.media_type = MediaType(media),
                         !.ex.count = ResolveCount(HardDiskCount(first, size),
                                                   m.ex.cnt),
                         !.ex.pc = "report"]
        ELSE [m EXCEPT !.ex.media_type = MediaType(media),
                       !.ex.count = ResolveCount(BigOf(MediaCount(media)),
                                                 m.ex.cnt),
                       !.ex.pc = "report"]

\* a report that gives sector_count before sector_size
StepReportCountFirst(m) ==
    LET h1 == Set(m.h, "media_type", m.ex.media_type)
        h2 == Set(h1, "sector_count", m.ex.count)
        h3 == Set(h2, "sector_size", V_SECTOR_SIZE)
        h4 == Set(h3, "sector_start", m.ex.start)
    IN  [m EXCEPT !.h = h4, !.ex.pc = "final_read"]

\* lines 126-129
StepReport(m) ==
    LET h1 == Set(m.h, "media_type", m.ex.media_type)
        h2 == Set(h1, "sector_size", V_SECTOR_SIZE)
        h3 == Set(h2, "sector_count", m.ex.count)
        h4 == Set(h3, "sector_start", m.ex.start)
    IN  [m EXCEPT !.h = h4, !.ex.pc = "final_read"]

\* line 130
StepFinalRead(img, m) ==
    LET n == CallGetSector(img, m, m.ex.start, m.ex.count, "returned")
    IN  IF n.ex.pc = "raised" THEN n
        ELSE Return([n EXCEPT !.ex.sector = m.ex.sector], n.ex.sector)

Ended(m) == m.ex.pc \in {"returned", "raised"}

\* one step of extract
Step(img, present, m) ==
    CASE m.ex.pc = "enter" -> StepEnter(present, m)
      [] m.ex.pc = "read_boot_record" -> StepReadBootRecord(img, m)
      [] m.ex.pc = "decode_boot_record" -> StepDecodeBootRecord(img, m)
      [] m.ex.pc = "read_catalog" -> StepReadCatalog(img, m)
      [] m.ex.pc = "decode_validation" -> StepDecodeValidation(img, m)
      [] m.ex.pc = "decode_initial" -> StepDecodeInitial(img, m)
      [] m.ex.pc = "classify" -> StepClassify(img, m)
      [] m.ex.pc = "report" -> StepReport(m)
      [] m.ex.pc = "final_read" -> StepFinalRead(img, m)
      [] OTHER -> m

\* extract(input_stream, handler) run to its end
RECURSIVE Run(_, _, _)
Run(img, present, m) ==
    IF Ended(m) THEN m ELSE Run(img, present, Step(img, present, m))

Extract(img, present, h) == Run(img, present, Machine(h))

----------------------------------------------------------------------------
(* The images the model runs on *)

\* 2^32 - 1, the largest value of a 4-byte field
MaxU32 == Big(Limb - 1, Limb - 1)

\* the specifier fields tried: padded with NULs, padded with spaces, with a
\* space before the text, with bytes the filter drops, with two spaces
\* between words, with a wrong last letter, with a byte >= 0x80
Specifiers ==
    { Pad(EL_TORITO_SPECIFICATION, 32, 0),
      Pad(EL_TORITO_SPECIFICATION, 32, 32),
      Pad(<<0, 32>> \o EL_TORITO_SPECIFICATION, 32, 0),
      Pad(SubSeq(EL_TORITO_SPECIFICATION, 1, 9) \o <<45, 118>>
            \o SubSeq(EL_TORITO_SPECIFICATION, 10, 23), 32, 0),
      Pad(SubSeq(EL_TORITO_SPECIFICATION, 1, 9) \o <<32>>
            \o SubSeq(EL_TORITO_SPECIFICATION, 10, 23), 32, 0),
      Pad(SubSeq(EL_TORITO_SPECIFICATION, 1, 22) \o <<77>>, 32, 0),
      Pad(EL_TORITO_SPECIFICATION \o <<128>>, 32, 0) }

\* "CD001", "CD002", and an identifier with a byte >= 0x80
Identifiers == { CD001, <<67, 68, 48, 48, 50>>, <<67, 68, 200, 48, 49>> }

\* "ACME" padded with NULs, and the same with a byte >= 0x80
Manufacturers ==
    { Pad(<<65, 67, 77, 69>>, 24, 0), Pad(<<65, 67, 77, 69, 233>>, 24, 0) }

\* a well-formed no-emulation image of 40 virtual sectors
GoodImage ==
    [len |-> ImageAt * SECTOR_SIZE + 40 * V_SECTOR_SIZE,
     iso |-> CD001, vers |-> 1,
     spec |-> Pad(EL_TORITO_SPECIFICATION, 32, 0),
     partition |-> BigOf(CatalogAt),
     header |-> 1, platform |-> 0,
     manufacturer |-> Pad(<<65, 67, 77, 69>>, 24, 0),
     key1 |-> 85, key2 |-> 170,
     boot |-> 136, media |-> 0, cnt |-> 40, start |-> BigOf(ImageAt),
     first |-> BigOf(0), size |-> BigOf(0)]

BootRecordImages ==
    { [GoodImage EXCEPT !.iso = i, !.spec = s] :
        i \in Identifiers, s \in Specifiers }

CatalogSectors ==
    { BigOf(CatalogAt), BigOf(BootRecordSector), BigOf(CatalogAt + 1), MaxU32 }

CatalogImages ==
    { [GoodImage EXCEPT !.partition = p, !.header = hd, !.key1 = k[1],
                        !.key2 = k[2], !.platform = pl, !.manufacturer = mf,
                        !.boot = b] :
        p \in CatalogSectors, hd \in {1, 2},
        k \in {<<85, 170>>, <<170, 85>>, <<85, 171>>},
        pl \in {0, 1, 2, 3}, mf \in Manufacturers, b \in {136, 0} }

StartSectors == { BigOf(ImageAt), BigOf(CatalogAt), MaxU32 }

\* lengths one byte short of, and exactly at, the end of k virtual sectors
\* of the boot image
Lengths(start) ==
    LET base == IF start.hi = 0 THEN start.lo ELSE ImageAt
    IN  { base * SECTOR_SIZE + k * V_SECTOR_SIZE - d :
            k \in {0, 1, 40, 300, 2400, 2880, 5760}, d \in {0, 1} }

FloppyImages ==
    UNION { { [GoodImage EXCEPT !.media = md, !.cnt = c, !.start = st,
                                !.len = n] : n \in Lengths(st) } :
            md \in {0, 1, 2, 3, 5, 255}, c \in {0, 1, 40},
            st \in StartSectors }

PartitionEntries ==
    { <<BigOf(0), BigOf(0)>>, <<BigOf(100), BigOf(200)>>,
      <<MaxU32, BigOf(1)>>, <<MaxU32, MaxU32>> }

HardDiskImages ==
    UNION { { [GoodImage EXCEPT !.media = 4, !.cnt = c, !.start = st,
                                !.first = pe[1], !.size = pe[2],
                                !.len = n] : n \in Lengths(st) } :
            c \in {0, 1, 40}, st \in StartSectors, pe \in PartitionEntries }

TruncatedImages ==
    { [GoodImage EXCEPT !.len = n] :
        n \in { 0,
                BootRecordSector * SECTOR_SIZE + V_SECTOR_SIZE - 1,
                BootRecordSector * SECTOR_SIZE + V_SECTOR_SIZE,
                CatalogAt * SECTOR_SIZE + V_SECTOR_SIZE - 1,
                CatalogAt * SECTOR_SIZE + V_SECTOR_SIZE } }

Images ==
    BootRecordImages \cup CatalogImages \cup FloppyImages
        \cup HardDiskImages \cup TruncatedImages

----------------------------------------------------------------------------
(* main *)

NewMain(at) ==
    [pc |-> at, console |-> <<>>, created |-> FALSE, data |-> EmptyBuf,
     exit |-> -1]

Idle == [NewActivation EXCEPT !.pc = "idle"]

\* the ways extract is called directly: stream and handler, either of them
\* possibly None, the handler printing or silent
Callers ==
    { <<TRUE, DetailHandler(TRUE)>>, <<TRUE, DetailHandler(FALSE)>>,
      <<TRUE, NoHandler>>, <<FALSE, DetailHandler(TRUE)>> }

Init ==
    /\ image \in Images
    /\ res = NoResult
    /\ \/ /\ mode = "cli"
          /\ stream = FALSE
          /\ handler = NoHandler
          /\ ex = Idle
          /\ cli = NewMain("check_input")
       \/ /\ mode = "api"
          /\ \E c \in Callers : stream = c[1] /\ handler = c[2]
          /\ ex = NewActivation
          /\ cli = NewMain("none")

\* lines 139-141
MainCheckInput ==
    /\ cli.pc = "check_input"
    /\ \E exists \in BOOLEAN :
         cli' = IF exists
                  THEN [cli EXCEPT !.pc = "check_output"]
                  ELSE [cli EXCEPT !.pc = "exited", !.exit = 1,
                          !.console = Append(@, "unable to find input")]
    /\ UNCHANGED <<image, stream, mode, handler, ex, res>>

\* lines 142-144
MainCheckOutput ==
    /\ cli.pc = "check_output"
    /\ \E exists \in BOOLEAN :
         cli' = IF ~exists
                  THEN [cli EXCEPT !.pc = "open_input"]
                  ELSE [cli EXCEPT !.pc = "exited", !.exit = 1,
                          !.console = Append(@, "output file already exists")]
    /\ UNCHANGED <<image, stream, mode, handler, ex, res>>

\* lines 146-147: open(args.input, "rb"), DetailHandler(), call extract
MainOpenInput ==
    /\ cli.pc = "open_input"
    /\ cli' = [cli EXCEPT !.pc = "extracting"]
    /\ stream' = TRUE
    /\ handler' = DetailHandler(TRUE)
    /\ ex' = NewActivation
    /\ UNCHANGED <<image, mode, res>>

\* lines 148-149: open(args.output, "wb") and o.write(b)
MainWriteOutput ==
    /\ cli.pc = "extracting"
    /\ ex.pc = "returned"
    /\ cli' = [cli EXCEPT !.pc = "print_success", !.created = TRUE,
                          !.data = res.buf]
    /\ UNCHANGED <<image, stream, mode, handler, ex, res>>

\* line 150, then main returns
MainPrintSuccess ==
    /\ cli.pc = "print_success"
    /\ cli' = [cli EXCEPT !.pc = "exited", !.exit = 0,
                 !.console = Append(@, "image written successfully")]
    /\ UNCHANGED <<image, stream, mode, handler, ex, res>>

\* lines 151-153, then main returns normally: exit status 0
MainExcept ==
    /\ cli.pc = "extracting"
    /\ ex.pc = "raised"
    /\ res.kind = "ElToritoError"
    /\ cli' = [cli EXCEPT !.pc = "exited", !.exit = 0,
                 !.console = @ \o <<"unable to extract image, eltorito format error",
                                    res.msg>>]
    /\ UNCHANGED <<image, stream, mode, handler, ex, res>>

\* an exception that is no ElToritoError leaves main: traceback, status 1
MainUncaught ==
    /\ cli.pc = "extracting"
    /\ ex.pc = "raised"
    /\ res.kind # "ElToritoError"
    /\ cli' = [cli EXCEPT !.pc = "exited", !.exit = 1,
                 !.console = Append(@, "Traceback")]
    /\ UNCHANGED <<image, stream, mode, handler, ex, res>>

----------------------------------------------------------------------------
(* extract's steps as actions *)

Current == [h |-> handler, ex |-> ex, res |-> res]

Becomes(m) ==
    /\ handler' = m.h
    /\ ex' = m.ex
    /\ res' = m.res
    /\ UNCHANGED <<image, stream, mode, cli>>

Enter == ex.pc = "enter" /\ Becomes(StepEnter(stream, Current))

ReadBootRecord ==
    ex.pc = "read_boot_record" /\ Becomes(StepReadBootRecord(image, Current))

DecodeBootRecord ==
    ex.pc = "decode_boot_record"
        /\ Becomes(StepDecodeBootRecord(image, Current))

ReadCatalog ==
    ex.pc = "read_catalog" /\ Becomes(StepReadCatalog(image, Current))

DecodeValidation ==
    ex.pc = "decode_validation"
        /\ Becomes(StepDecodeValidation(image, Current))

DecodeInitial ==
    ex.pc = "decode_initial" /\ Becomes(StepDecodeInitial(image, Current))

Classify == ex.pc = "classify" /\ Becomes(StepClassify(image, Current))

Report == ex.pc = "report" /\ Becomes(StepReport(Current))

FinalRead == ex.pc = "final_read" /\ Becomes(StepFinalRead(image, Current))

Next ==
    \/ MainCheckInput
    \/ MainCheckOutput
    \/ MainOpenInput
    \/ Enter
    \/ ReadBootRecord
    \/ DecodeBootRecord
    \/ ReadCatalog
    \/ DecodeValidation
    \/ DecodeInitial
    \/ Classify
    \/ Report
    \/ FinalRead
    \/ MainWriteOutput
    \/ MainPrintSuccess
    \/ MainExcept
    \/ MainUncaught

Spec == Init /\ [][Next]_vars

----------------------------------------------------------------------------
(* Vocabulary of the properties *)

Returned == ex.pc = "returned"

Raised == ex.pc = "raised"

FailedWith(msg) == Raised /\ res.kind = "ElToritoError" /\ res.msg = msg

TruncatedImageError == FailedWith("invalid sector read")

NotBootableError == FailedWith("this is not a bootable cd-image")

InvalidValidationEntryError == FailedWith("invalid validation entry")

NotBootableEntryError ==
    FailedWith("boot indicator is not 0x88, not bootable")

InvalidArgumentError ==
    FailedWith("invalid arguments for extraction, all inputs must be set")

\* the names passed to the sink so far, in order
Names == [i \in 1..Len(handler.attrs) |-> handler.attrs[i].key]

FieldOrder ==
    <<"iso", "vers", "spec", "partition", "platform", "manufacturer",
      "platform_string", "media", "media_type", "sector_size",
      "sector_count", "sector_start">>

\* sector 17 has been read in full
BootRecordRead ==
    /\ Len(ex.reads) >= 1
    /\ ~(Len(ex.reads) = 1 /\ TruncatedImageError)
    /\ ex.pc # "decode_boot_record"

\* the catalog sector has been read in full and the validation entry decided
CatalogRead ==
    /\ Len(ex.reads) >= 2
    /\ ~(Len(ex.reads) = 2 /\ TruncatedImageError)
    /\ ex.pc # "decode_validation"

\* the bytes of the boot record and of the catalog, as they lie in the source
SourceIso == [k \in 1..5 |-> ByteAt(image, BootRecordSector * SECTOR_SIZE + k)]

SourceSpecifier ==
    [k \in 1..32 |-> ByteAt(image, BootRecordSector * SECTOR_SIZE + 6 + k)]

CatalogByte(i) == ByteAt(image, ex.sector.off + i)

CatalogCount == CatalogByte(38) + 256 * CatalogByte(39)

\* the boot indicator check has passed and the media has been classified
\* (or the classification has failed)
PastClassify ==
    /\ CatalogRead
    /\ HasAttr(handler, "media")
    /\ ex.pc # "classify"
    /\ ~NotBootableEntryError

\* a sector count has been resolved (media_type is assigned with it)
Resolved == ex.media_type # ""

\* load_rba * 2048 + resolved_sector_count * 512
BytesNeeded ==
    BigAdd(BigMul(ex.start, SECTOR_SIZE), BigMul(ex.count, V_SECTOR_SIZE))

----------------------------------------------------------------------------
(* C1: once the boot record, the validation entry and the initial entry     *)
(* have passed and a sector count is resolved, extract either returns       *)
(* exactly resolved_sector_count * 512 bytes from offset load_rba * 2048,   *)
(* or, when the source holds fewer than load_rba * 2048 +                   *)
(* resolved_sector_count * 512 bytes, fails with "invalid sector read"; it  *)
(* never returns a buffer of another length.                                *)
C1_ExactBufferOrTruncated ==
    (Resolved /\ (Returned \/ Raised)) =>
        IF BigLeq(BytesNeeded, BigOf(image.len))
          THEN /\ Returned
               /\ BigOf(res.buf.len) = BigMul(ex.count, V_SECTOR_SIZE)
               /\ res.buf.len > 0 =>
                    BigOf(res.buf.off) = BigMul(ex.start, SECTOR_SIZE)
          ELSE TruncatedImageError

\* C1 as amended: a resolved count of 0 is read as the empty buffer whatever
\* the length of the source; a positive count is returned in full from
\* offset load_rba * 2048 when the source holds it and fails with "invalid
\* sector read" when it does not
C1_ExactBufferOrTruncatedUnlessEmpty ==
    (Resolved /\ (Returned \/ Raised)) =>
        IF BigIsZero(ex.count)
          THEN Returned /\ res.buf.len = 0
        ELSE IF BigLeq(BytesNeeded, BigOf(image.len))
          THEN /\ Returned
               /\ BigOf(res.buf.len) = BigMul(ex.count, V_SECTOR_SIZE)
               /\ BigOf(res.buf.off) = BigMul(ex.start, SECTOR_SIZE)
          ELSE TruncatedImageError

\* no-emulation media, sector_count 40: 20480 bytes from the image's offset
C1_Witness ==
    /\ Returned
    /\ CatalogByte(33) = 0
    /\ CatalogCount = 40
    /\ res.buf = [off |-> ImageAt * 2048, len |-> 20480]

(* C2: past the boot record, validation entry and boot indicator checks,   *)
(* the resolved sector count is greater than 0 whenever media_type is 1,   *)
(* 2, 3 or 4, whatever the partition entry and the catalog's sector_count. *)
C2_PositiveCountForKnownMedia ==
    (Resolved /\ CatalogByte(33) \in {1, 2, 3, 4}) => ~BigIsZero(ex.count)

(* C3: when the identifier of sector 17 is not "CD001", or the specifier   *)
(* with only its uppercase letters and spaces kept is not exactly          *)
(* "EL TORITO SPECIFICATION", extract fails with "this is not a bootable   *)
(* cd-image", reads nothing at the catalog sector and reports no catalog   *)
(* field.                                                                  *)
C3_NotBootableOnBadBootRecord ==
    (BootRecordRead /\ (\/ SourceIso # CD001
                        \/ FilterSpec(SourceSpecifier) # EL_TORITO_SPECIFICATION))
        => /\ NotBootableError
           /\ Len(ex.reads) = 1
           /\ Names = SubSeq(FieldOrder, 1, 4)

(* C4: after a valid boot record and a readable catalog sector, extract    *)
(* fails with "invalid validation entry" if and only if header_id is not 1 *)
(* or the key bytes are not 0x55, 0xAA in that order, whatever the boot    *)
(* indicator and the platform_id are.                                      *)
C4_ValidationEntryDecides ==
    CatalogRead =>
        (InvalidValidationEntryError <=>
            (CatalogByte(0) # 1 \/ CatalogByte(30) # 85 \/ CatalogByte(31) # 170))

\* the initial entry's load_rba as it lies in the source
CatalogStart ==
    Big(CatalogByte(42) + 256 * CatalogByte(43),
        CatalogByte(40) + 256 * CatalogByte(41))

\* the 4-byte little-endian integer at byte o of the sector at load_rba
PartitionWord(o) ==
    LET at == BigToInt(BigMul(CatalogStart, SECTOR_SIZE)) + o
    IN  Big(ByteAt(image, at + 2) + 256 * ByteAt(image, at + 3),
            ByteAt(image, at) + 256 * ByteAt(image, at + 1))

(* C5: when media_type is 4 and the earlier checks pass, extract reads 512 *)
(* bytes at load_rba * 2048; the resolved count is the exact sum of the    *)
(* little-endian integers at bytes 454-457 and 458-461 of that read (no    *)
(* wrap at 2^32), whatever the catalog's sector_count when the sum is not  *)
(* 0; when load_rba * 2048 + 512 exceeds the length of the source the side *)
(* read fails with "invalid sector read".                                  *)
C5_HardDiskCount ==
    (PastClassify /\ CatalogByte(33) = 4) =>
        /\ Len(ex.reads) >= 3
        /\ ex.reads[3] = [number |-> CatalogStart, count |-> BigOf(1)]
        /\ IF BigLeq(BigAdd(BigMul(CatalogStart, SECTOR_SIZE), BigOf(512)),
                     BigOf(image.len))
             THEN LET sum == BigAdd(PartitionWord(454), PartitionWord(458))
                  IN  /\ Resolved
                      /\ ex.mbr = [off |-> BigToInt(BigMul(CatalogStart,
                                                           SECTOR_SIZE)),
                                   len |-> 512]
                      /\ ex.count = IF BigIsZero(sum) THEN BigOf(CatalogCount)
                                    ELSE sum
             ELSE ~Resolved /\ TruncatedImageError /\ Len(ex.reads) = 3

\* first_sector_lba 100, sector_count_lba 200, catalog sector_count 40: 300
C5_Witness ==
    /\ Returned
    /\ CatalogByte(33) = 4
    /\ PartitionWord(454) = BigOf(100)
    /\ PartitionWord(458) = BigOf(200)
    /\ CatalogCount = 40
    /\ ex.count = BigOf(300)
    /\ res.buf.len = 300 * 512

(* C6: with boot_indicator 0x88 and media_type other than 4 the resolved   *)
(* count depends on media_type and the catalog's sector_count only: 2400,  *)
(* 2880, 5760 for media 1, 2, 3, the catalog's sector_count for media 0    *)
(* and for every unrecognised media, none of which raises; the label is    *)
(* "1.2meg floppy", "1.44meg floppy", "2.88meg floppy", "no emulation",    *)
(* "unknown".                                                              *)
C6_CountAndLabelByMedia ==
    (PastClassify /\ CatalogByte(33) # 4) =>
        LET media == CatalogByte(33)
            n     == IF media = 1 THEN 2400
                     ELSE IF media = 2 THEN 2880
                     ELSE IF media = 3 THEN 5760
                     ELSE CatalogCount
            label == IF media = 1 THEN "1.2meg floppy"
                     ELSE IF media = 2 THEN "1.44meg floppy"
                     ELSE IF media = 3 THEN "2.88meg floppy"
                     ELSE IF media = 0 THEN "no emulation"
                     ELSE "unknown"
        IN  /\ Resolved
            /\ ex.count = BigOf(n)
            /\ ex.media_type = label
            /\ HasAttr(handler, "media_type") =>
                 Get(handler, "media_type") = label

\* a 1.44meg floppy image returned in full although the catalog says 40
C6_Witness ==
    /\ Returned
    /\ CatalogByte(33) = 2
    /\ CatalogCount = 40
    /\ res.buf.len = 2880 * 512

(* C7: the outcome of extract over a source is the same whether the sink   *)
(* prints the reported pairs, drops them silently, or is omitted.          *)
C7_SinkNeverMatters ==
    ((Returned \/ Raised) /\ stream) =>
        \A h \in {DetailHandler(TRUE), DetailHandler(FALSE), NoHandler} :
            Extract(image, stream, h).res = res

\* C7 as amended: a printing and a silent DetailHandler give the same
\* outcome, the same reads and the same reported fields; an omitted handler
\* makes extract fail with the invalid-arguments error before any read
C7_PrintingOrSilent ==
    (Returned \/ Raised) =>
        IF handler.present
          THEN LET other == Extract(image, stream,
                                    DetailHandler(~handler.stdout))
               IN  /\ other.res = res
                   /\ other.ex.reads = ex.reads
                   /\ other.h.attrs = handler.attrs
          ELSE InvalidArgumentError /\ ex.reads = <<>>

\* a silent handler, nothing written, and a buffer returned
C7_Witness ==
    /\ Returned
    /\ handler.present /\ ~handler.stdout
    /\ handler.written = <<>>
    /\ res.buf.len > 0

(* C8: in the command-line program a failure of extract with an            *)
(* ElToritoError prints the generic format-error message and the detail,   *)
(* creates no output file and ends with a non-zero exit code; the exit     *)
(* code is 0 only after the whole buffer has been written.                 *)
C8_FailureExitsNonZero ==
    cli.pc = "exited" =>
        /\ (Raised /\ res.kind = "ElToritoError") =>
              /\ cli.console =
                   <<"unable to extract image, eltorito format error", res.msg>>
              /\ ~cli.created
              /\ cli.exit # 0
        /\ cli.exit = 0 =>
              Returned /\ cli.created /\ cli.data = res.buf

(* C9: the names passed to the sink are a prefix of iso, vers, spec,       *)
(* partition, platform, manufacturer, platform_string, media, media_type,  *)
(* sector_size, sector_count, sector_start; a run that returns has         *)
(* reported all twelve, with sector_size 512, sector_count the count of    *)
(* the final read and sector_start load_rba; a run that fails has reported *)
(* the fields decoded before the failing check or read.                    *)
C9_ReportedPrefix ==
    /\ Len(Names) <= Len(FieldOrder)
    /\ Names = SubSeq(FieldOrder, 1, Len(Names))
    /\ Returned =>
         /\ Len(Names) = 12
         /\ Get(handler, "sector_size") = 512
         /\ Get(handler, "sector_count") = ex.reads[Len(ex.reads)].count
         /\ Get(handler, "sector_start") = CatalogStart
         /\ ex.reads[Len(ex.reads)].number = CatalogStart
    /\ InvalidArgumentError => Len(Names) = 0
    /\ NotBootableError => Len(Names) = 4
    /\ InvalidValidationEntryError => Len(Names) = 6
    /\ NotBootableEntryError => Len(Names) = 8
    /\ TruncatedImageError =>
         Len(Names) = (IF Len(ex.reads) = 1 THEN 0
                       ELSE IF Len(ex.reads) = 2 THEN 4
                       ELSE IF Resolved THEN 12 ELSE 8)
    /\ (Raised /\ res.kind = "UnicodeDecodeError") => Len(Names) \in {0, 2, 5}

\* "CD002": exactly iso, vers, spec, partition reported on the failure
C9_Witness ==
    /\ NotBootableError
    /\ SourceIso = <<67, 68, 48, 48, 50>>
    /\ Names = <<"iso", "vers", "spec", "partition">>

(* C10: with a source and a sink passed, extract either returns a buffer   *)
(* or fails with an ElToritoError of the taxonomy, whatever the bytes and  *)
(* the length of the source; no other failure leaves extract.              *)
C10_OnlyElToritoErrors ==
    ((Returned \/ Raised) /\ stream /\ handler.present) =>
        \/ Returned
        \/ TruncatedImageError
        \/ NotBootableError
        \/ InvalidValidationEntryError
        \/ NotBootableEntryError

====
